---- MODULE Spec2Model ----
(***************************************************************************)
(* Model of pysc2/env/mock_sc2_env.py: the generic test environment        *)
(* (_TestEnvironment) and the SC2 fixture built on it (SC2TestEnv).        *)
(*                                                                         *)
(* State: the fields of one environment instance, plus the most recent     *)
(* call made on it and what that call returned or raised.                  *)
(***************************************************************************)
EXTENDS Integers, Sequences, FiniteSets, TLC

----------------------------------------------------------------------------
(* Bounds of the model *)

MaxAgents == 2      \* longest roster / largest agent count
MaxLen == 2         \* largest episode length a caller assigns
MaxSteps == 11      \* cap of the episode counter (it is unbounded in the code)

----------------------------------------------------------------------------
(* environment.StepType and environment.TimeStep *)

FIRST == "FIRST"
MID == "MID"
LAST == "LAST"

StepTypes == {FIRST, MID, LAST}

TimeStep(st, r, d, o) ==
  [step_type |-> st, reward |-> r, discount |-> d, observation |-> o]

(* _replace(step_type=..., reward=..., discount=...) and _replace(step_type=...) *)
Replace3(ts, st, r, d) ==
  [ts EXCEPT !.step_type = st, !.reward = r, !.discount = d]

Replace1(ts, st) == [ts EXCEPT !.step_type = st]

----------------------------------------------------------------------------
(* episode_length: float('inf') or a number *)

Infinity == [inf |-> TRUE, n |-> 0]

Finite(k) == [inf |-> FALSE, n |-> k]

ReachedLength_IgnoreInf(steps, length) == steps >= length.n

ReachedLength_Strict(steps, length) == (~length.inf) /\ steps > length.n

(* steps >= length, as Python compares an int with a number or float('inf') *)
ReachedLength(steps, length) == (~length.inf) /\ steps >= length.n

FixtureEpisodeLength_OffByOne == 10 - 1

FixtureEpisodeLength == 10

----------------------------------------------------------------------------
(* Python values that can land in the positional slot _only_use_kwargs *)

PyNone == [kind |-> "none", n |-> 0]
PyInt(k) == [kind |-> "int", n |-> k]
PyStr(len) == [kind |-> "str", n |-> len]
PyList(len) == [kind |-> "list", n |-> len]

PositionalValues == {PyNone, PyInt(0), PyInt(1), PyStr(0), PyStr(1), PyList(0), PyList(1)}

(* Python truth value of `if _only_use_kwargs:` *)
Truthy(v) ==
  CASE v.kind = "none" -> FALSE
    [] v.kind = "int" -> v.n # 0
    [] v.kind = "str" -> v.n # 0
    [] v.kind = "list" -> v.n # 0

----------------------------------------------------------------------------
(* The players roster: None, or a list of Agent / Bot instances *)

NoPlayers == [none |-> TRUE, list |-> <<>>]

Players(l) == [none |-> FALSE, list |-> l]

SeqsUpTo(S, k) == UNION {[1..m -> S] : m \in 0..k}

Rosters == {NoPlayers} \cup {Players(l) : l \in SeqsUpTo({"Agent", "Bot"}, MaxAgents)}

RECURSIVE CountAgents(_)
CountAgents(l) ==
  IF l = <<>> THEN 0
  ELSE (IF Head(l) = "Agent" THEN 1 ELSE 0) + CountAgents(Tail(l))

(* if not players: num_agents = 1, else the number of Agent instances *)
NumAgents(players) ==
  IF players.none \/ Len(players.list) = 0 THEN 1
  ELSE CountAgents(players.list)

----------------------------------------------------------------------------
(* Observations are opaque here: the value built once by                   *)
(* _default_observation, or one a caller put into next_timestep.           *)

ZeroObservation == "zeros"
MockObservation == "sc2_mock"
CustomObservation == "custom"

DefaultObservation(cls) ==
  IF cls = "SC2TestEnv" THEN MockObservation ELSE ZeroObservation

DefaultTimestep(cls) == TimeStep(MID, 0, 1, DefaultObservation(cls))

----------------------------------------------------------------------------
(* _TestEnvironment.step, piece by piece *)

(* Variants of the definitions below with one plausible slip each *)
StepTimestep_GT(steps, length, tmpl) ==
  IF steps = 0 THEN Replace3(tmpl, FIRST, 0, 1)
  ELSE IF (~length.inf) /\ steps > length.n THEN Replace1(tmpl, LAST)
  ELSE tmpl

StepTimestep_LengthFirst(steps, length, tmpl) ==
  IF ReachedLength(steps, length) THEN Replace1(tmpl, LAST)
  ELSE IF steps = 0 THEN Replace3(tmpl, FIRST, 0, 1)
  ELSE tmpl

StepTimestep_ForceMid(steps, length, tmpl) ==
  IF steps = 0 THEN Replace3(tmpl, FIRST, 0, 1)
  ELSE IF ReachedLength(steps, length) THEN Replace1(tmpl, LAST)
  ELSE Replace1(tmpl, MID)

(* lines 91-98: the timestep a call returns when the counter is `steps` *)
StepTimestep(steps, length, tmpl) ==
  IF steps = 0 THEN Replace3(tmpl, FIRST, 0, 1)
  ELSE IF ReachedLength(steps, length) THEN Replace1(tmpl, LAST)
  ELSE tmpl

NextEpisodeSteps_Stuck(steps, timestep) ==
  IF timestep.step_type = LAST THEN 0
  ELSE IF steps = 0 THEN 1 ELSE steps

NextEpisodeSteps_NoWrap(steps, timestep) == steps + 1

(* lines 100-103: the counter after the call *)
NextEpisodeSteps(steps, timestep) ==
  IF timestep.step_type = LAST THEN 0 ELSE steps + 1

Replicate_Single(timestep, n) == <<timestep>>

(* line 105: [timestep] * self._num_agents *)
Replicate(timestep, n) == [i \in 1..n |-> timestep]

StepOutcome_CountFirst(nactions, n, steps, length, tmpl) ==
  LET timestep == StepTimestep(steps, length, tmpl)
  IN IF nactions # n
     THEN [raised |-> "ValueError",
           episode_steps |-> NextEpisodeSteps(steps, timestep),
           next_timestep |-> tmpl,
           result |-> <<>>]
     ELSE [raised |-> "none",
           episode_steps |-> NextEpisodeSteps(steps, timestep),
           next_timestep |-> tmpl,
           result |-> Replicate(timestep, n)]

StepOutcome_WriteBack(nactions, n, steps, length, tmpl) ==
  IF nactions # n
  THEN [raised |-> "ValueError", episode_steps |-> steps,
        next_timestep |-> tmpl, result |-> <<>>]
  ELSE LET timestep == StepTimestep(steps, length, tmpl)
       IN [raised |-> "none",
           episode_steps |-> NextEpisodeSteps(steps, timestep),
           next_timestep |-> timestep,
           result |-> Replicate(timestep, n)]

(* lines 85-105: step(actions) with len(actions) = nactions *)
StepOutcome(nactions, n, steps, length, tmpl) ==
  IF nactions # n
  THEN [raised |-> "ValueError", episode_steps |-> steps,
        next_timestep |-> tmpl, result |-> <<>>]
  ELSE LET timestep == StepTimestep(steps, length, tmpl)
       IN [raised |-> "none",
           episode_steps |-> NextEpisodeSteps(steps, timestep),
           next_timestep |-> tmpl,
           result |-> Replicate(timestep, n)]

ResetOutcome_KeepCounter(n, steps, length, tmpl) ==
  StepOutcome(n, n, steps, length, tmpl)

(* lines 80-83: reset() *)
ResetOutcome(n, steps, length, tmpl) ==
  StepOutcome(n, n, 0, length, tmpl)

----------------------------------------------------------------------------
(* Constructors *)

(* __init__ raised exc: there is no instance *)
Failed(exc) ==
  [raised |-> exc, constructed |-> FALSE, num_agents |-> 0,
   episode_steps |-> 0, next_timestep |-> DefaultTimestep("none"),
   episode_length |-> Infinity]

NoFields == Failed("ValueError")

(* lines 56-78: _TestEnvironment.__init__. With num_agents = 0 line 69      *)
(* makes _observation_spec the empty tuple and _default_observation, called *)
(* at line 77, indexes it (line 118, line 301): IndexError                  *)
TestEnvironmentInit(cls, n) ==
  IF n = 0 THEN Failed("IndexError")
  ELSE [raised |-> "none", constructed |-> TRUE, num_agents |-> n,
        episode_steps |-> 0, next_timestep |-> DefaultTimestep(cls),
        episode_length |-> Infinity]

(* lines 143-255: SC2TestEnv.__init__ (the size options are taken to be    *)
(* ones features.Features accepts)                                         *)
SC2TestEnvInit(only_use_kwargs, players) ==
  IF Truthy(only_use_kwargs) THEN NoFields
  ELSE LET base == TestEnvironmentInit("SC2TestEnv", NumAgents(players))
       IN IF base.raised # "none" THEN base
          ELSE [base EXCEPT !.episode_length = Finite(FixtureEpisodeLength)]

SaveReplayFields_NewEpisode(f) == [f EXCEPT !.episode_steps = 0]

(* lines 257-258: save_replay does nothing to the fields *)
SaveReplayFields(f) == f

----------------------------------------------------------------------------
(* State *)

VARIABLES
  constructed,     \* an instance exists
  cls,             \* its class
  num_agents,      \* self._num_agents
  episode_steps,   \* self._episode_steps
  next_timestep,   \* self.next_timestep
  episode_length,  \* self.episode_length
  call,            \* the most recent call and its inputs
  raised,          \* what that call raised ("none" if it returned)
  result,          \* what that call returned (<<>> for None)
  run              \* history: position of the most recent step call in a run
                   \* of calls that began at a reset and during which
                   \* episode_length was not reassigned and the template kept
                   \* step_type MID; 0 when there is no such run

vars == <<constructed, cls, num_agents, episode_steps, next_timestep,
          episode_length, call, raised, result, run>>

fields == <<constructed, cls, num_agents, episode_steps, next_timestep,
            episode_length>>

Call(op, positional, arg, players, nactions) ==
  [op |-> op, positional |-> positional, arg |-> arg, players |-> players,
   nactions |-> nactions]

SimpleCall(op) == Call(op, FALSE, PyNone, NoPlayers, 0)

Rewards == {0, 1}
Discounts == {0, 1}

Lengths == {Infinity} \cup {Finite(k) : k \in 0..MaxLen}

SetFields(c, f) ==
  /\ constructed' = f.constructed
  /\ cls' = c
  /\ num_agents' = f.num_agents
  /\ episode_steps' = f.episode_steps
  /\ next_timestep' = f.next_timestep
  /\ episode_length' = f.episode_length
  /\ raised' = f.raised
  /\ result' = <<>>
  /\ run' = 0

Init ==
  LET f == SC2TestEnvInit(PyNone, NoPlayers)
  IN /\ constructed = f.constructed
     /\ cls = "SC2TestEnv"
     /\ num_agents = f.num_agents
     /\ episode_steps = f.episode_steps
     /\ next_timestep = f.next_timestep
     /\ episode_length = f.episode_length
     /\ call = Call("construct", FALSE, PyNone, NoPlayers, 0)
     /\ raised = f.raised
     /\ result = <<>>
     /\ run = 0

----------------------------------------------------------------------------
(* Calls *)

(* _TestEnvironment(num_agents=n, ...); the instance that the later calls   *)
(* are made on is constructed before any of them                           *)
ConstructEngine ==
  \E n \in 0..MaxAgents :
    /\ call.op = "construct"
    /\ SetFields("_TestEnvironment", TestEnvironmentInit("_TestEnvironment", n))
    /\ call' = SimpleCall("construct")

(* SC2TestEnv(v, players=..., ...) or SC2TestEnv(players=..., ...) *)
ConstructFixture ==
  \E positional \in BOOLEAN, players \in Rosters :
    \E v \in (IF positional THEN PositionalValues ELSE {PyNone}) :
      /\ call.op = "construct"
      /\ SetFields("SC2TestEnv", SC2TestEnvInit(v, players))
      /\ call' = Call("construct", positional, v, players, 0)

(* env.reset() *)
Reset ==
  /\ constructed
  /\ LET o == ResetOutcome(num_agents, episode_steps, episode_length, next_timestep)
     IN /\ episode_steps' = o.episode_steps
        /\ next_timestep' = o.next_timestep
        /\ raised' = o.raised
        /\ result' = o.result
  /\ call' = SimpleCall("reset")
  /\ run' = IF next_timestep.step_type = MID THEN 1 ELSE 0
  /\ UNCHANGED <<constructed, cls, num_agents, episode_length>>

(* env.step(actions), len(actions) = num_agents *)
Step ==
  /\ constructed
  /\ LET o == StepOutcome(num_agents, num_agents, episode_steps, episode_length,
                          next_timestep)
     IN /\ o.episode_steps <= MaxSteps
        /\ episode_steps' = o.episode_steps
        /\ next_timestep' = o.next_timestep
        /\ raised' = o.raised
        /\ result' = o.result
  /\ call' = Call("step", FALSE, PyNone, NoPlayers, num_agents)
  /\ run' = IF run > 0 /\ run <= MaxSteps THEN run + 1 ELSE 0
  /\ UNCHANGED <<constructed, cls, num_agents, episode_length>>

(* env.step(actions), len(actions) # num_agents *)
StepInvalid ==
  /\ constructed
  /\ \E nactions \in (0..(MaxAgents + 1)) \ {num_agents} :
       /\ LET o == StepOutcome(nactions, num_agents, episode_steps,
                               episode_length, next_timestep)
          IN /\ o.episode_steps <= MaxSteps
             /\ episode_steps' = o.episode_steps
             /\ next_timestep' = o.next_timestep
             /\ raised' = o.raised
             /\ result' = o.result
       /\ call' = Call("step", FALSE, PyNone, NoPlayers, nactions)
  /\ UNCHANGED <<constructed, cls, num_agents, episode_length, run>>

(* env.save_replay(...) *)
SaveReplay ==
  /\ constructed
  /\ cls = "SC2TestEnv"
  /\ LET f == SaveReplayFields([num_agents |-> num_agents,
                                episode_steps |-> episode_steps,
                                next_timestep |-> next_timestep,
                                episode_length |-> episode_length])
     IN /\ num_agents' = f.num_agents
        /\ episode_steps' = f.episode_steps
        /\ next_timestep' = f.next_timestep
        /\ episode_length' = f.episode_length
  /\ \E nargs \in 0..MaxAgents : call' = Call("save_replay", FALSE, PyNone, NoPlayers, nargs)
  /\ raised' = "none"
  /\ result' = <<>>
  /\ UNCHANGED <<constructed, cls, run>>

(* env.next_timestep = TimeStep(...) *)
SetNextTimestep ==
  /\ constructed
  /\ \E st \in StepTypes, r \in Rewards, d \in Discounts,
        o \in {DefaultObservation(cls), CustomObservation} :
       /\ next_timestep' = TimeStep(st, r, d, o)
       /\ run' = IF st = MID THEN run ELSE 0
  /\ call' = SimpleCall("set_next_timestep")
  /\ raised' = "none"
  /\ result' = <<>>
  /\ UNCHANGED <<constructed, cls, num_agents, episode_steps, episode_length>>

(* env.episode_length = length *)
SetEpisodeLength ==
  /\ constructed
  /\ \E length \in Lengths :
       /\ episode_length' = length
       /\ run' = IF length = episode_length THEN run ELSE 0
  /\ call' = SimpleCall("set_episode_length")
  /\ raised' = "none"
  /\ result' = <<>>
  /\ UNCHANGED <<constructed, cls, num_agents, episode_steps, next_timestep>>

Next ==
  \/ ConstructEngine
  \/ ConstructFixture
  \/ Reset
  \/ Step
  \/ StepInvalid
  \/ SaveReplay
  \/ SetNextTimestep
  \/ SetEpisodeLength

Spec == Init /\ [][Next]_vars

----------------------------------------------------------------------------
(* SC2TestEnv._default_observation: the buffers put into the raw           *)
(* observation and the minimap camera written after transform_obs          *)

MaxDim == 3         \* largest declared height or width

Dims == 1..MaxDim

(* features.SCREEN_FEATURES / features.MINIMAP_FEATURES, a few of them *)
ScreenFeatures == {"height_map", "unit_type"}
MinimapFeatures == {"height_map", "camera"}

ObsKeys == {"feature_screen", "feature_minimap", "rgb_screen", "rgb_minimap"}

(* shapes as observation_spec() gives them: (layers, y, x) and (y, x, 3) *)
FeatureShape(layers, h, w) == <<Cardinality(layers), h, w>>
RgbShape(h, w) == <<h, w, 3>>

Undeclared == <<>>

FeatureShapes(layers) ==
  {Undeclared} \cup {FeatureShape(layers, h, w) : h \in Dims, w \in Dims}

RgbShapes == {Undeclared} \cup {RgbShape(h, w) : h \in Dims, w \in Dims}

(* the mapping with exactly the declared keys *)
MakeObsSpec(fs, fm, rs, rm) ==
  LET all == [k \in ObsKeys |->
                CASE k = "feature_screen" -> fs
                  [] k = "feature_minimap" -> fm
                  [] k = "rgb_screen" -> rs
                  [] k = "rgb_minimap" -> rm]
  IN [k \in {j \in ObsKeys : all[j] # Undeclared} |-> all[k]]

(* int(math.ceil(x / 8)) *)
CeilDiv8(x) == (x + 7) \div 8

(* b'\0' * n *)
ZeroBytes(n) == [i \in 1..n |-> 0]

(* an ImageData message that was never filled *)
NoImage == [bits_per_pixel |-> 0, size_y |-> 0, size_x |-> 0, data |-> <<>>]

Fill_NoBits(size, bits) ==
  [bits_per_pixel |-> bits, size_y |-> size[1], size_x |-> size[2],
   data |-> ZeroBytes(CeilDiv8(size[1] * size[2]))]

(* lines 295-299: fill(image_data, size, bits) *)
Fill(size, bits) ==
  [bits_per_pixel |-> bits, size_y |-> size[1], size_x |-> size[2],
   data |-> ZeroBytes(CeilDiv8(size[1] * size[2] * bits))]

(* shape[1:] and shape[:2] *)
From1(shape) == Tail(shape)
UpTo2(shape) == SubSeq(shape, 1, 2)

(* lines 301-313: the buffers, or KeyError when obs_spec['rgb_minimap']    *)
(* is looked up and is not there                                           *)
RawObservation(obs_spec) ==
  LET has(k) == k \in DOMAIN obs_spec
  IN IF has("rgb_screen") /\ ~has("rgb_minimap")
     THEN [raised |-> "KeyError"]
     ELSE [raised |-> "none",
           renders |->
             [f \in ScreenFeatures |->
                IF has("feature_screen")
                THEN Fill(From1(obs_spec["feature_screen"]), 8)
                ELSE NoImage],
           minimap_renders |->
             [f \in MinimapFeatures |->
                IF has("feature_minimap")
                THEN Fill(From1(obs_spec["feature_minimap"]), 8)
                ELSE NoImage],
           map |->
             IF has("rgb_screen")
             THEN Fill(UpTo2(obs_spec["rgb_screen"]), 24)
             ELSE NoImage,
           minimap |->
             IF has("rgb_screen")
             THEN Fill(UpTo2(obs_spec["rgb_minimap"]), 24)
             ELSE NoImage]

(* A two-dimensional array, rows and columns counted from 0 *)
ZeroArray(h, w) ==
  [h |-> h, w |-> w,
   cells |-> [r \in 0..(h - 1) |-> [c \in 0..(w - 1) |-> 0]]]

NoArray == [h |-> 0, w |-> 0, cells |-> <<>>]

(* What transform_obs may leave in feature_minimap.camera before line 318  *)
PriorPatterns == {"zeros", "ones", "ramp"}

PriorCamera(h, w, p) ==
  [h |-> h, w |-> w,
   cells |-> [r \in 0..(h - 1) |->
                [c \in 0..(w - 1) |->
                   CASE p = "zeros" -> 0
                     [] p = "ones" -> 1
                     [] p = "ramp" -> 2 + r + 2 * c]]]

(* features.transform_obs, as far as the camera goes: the observation has  *)
(* feature_minimap exactly when the spec declares it, with a camera layer  *)
(* of the declared height and width                                        *)
TransformedCamera(obs_spec, p) ==
  IF "feature_minimap" \in DOMAIN obs_spec
  THEN PriorCamera(obs_spec["feature_minimap"][2],
                   obs_spec["feature_minimap"][3], p)
  ELSE NoArray

MinimapCameraPost_RoundUp(camera) ==
  LET height == (camera.h + 1) \div 2
      width == (camera.w + 1) \div 2
  IN [h |-> camera.h, w |-> camera.w,
      cells |-> [r \in 0..(camera.h - 1) |->
                   [c \in 0..(camera.w - 1) |->
                      IF r < height /\ c < width THEN 1 ELSE 0]]]

(* lines 319-322: fill(0), then [:height, :width].fill(1) *)
MinimapCameraPost(camera) ==
  LET zeroed == ZeroArray(camera.h, camera.w)
      height == zeroed.h \div 2
      width == zeroed.w \div 2
  IN [zeroed EXCEPT !.cells =
        [r \in DOMAIN zeroed.cells |->
           [c \in DOMAIN zeroed.cells[r] |->
              IF r \in 0..(height - 1) /\ c \in 0..(width - 1)
              THEN 1 ELSE zeroed.cells[r][c]]]]

(* lines 260-324: _default_observation for a given spec *)
DefaultObservationOutcome(obs_spec, p) ==
  LET raw == RawObservation(obs_spec)
  IN IF raw.raised # "none"
     THEN [raised |-> raw.raised, observation |-> <<>>]
     ELSE [raised |-> "none",
           observation |->
             [raw |-> raw,
              camera |->
                IF "feature_minimap" \in DOMAIN obs_spec
                THEN MinimapCameraPost(TransformedCamera(obs_spec, p))
                ELSE NoArray]]

(* The fixture while SC2TestEnv.__init__ runs, before line 251 builds the   *)
(* default observation                                                     *)
InitSynth ==
  /\ constructed = FALSE
  /\ cls = "SC2TestEnv"
  /\ num_agents = 1
  /\ episode_steps = 0
  /\ next_timestep = DefaultTimestep("none")
  /\ episode_length = Infinity
  /\ call = SimpleCall("__init__")
  /\ raised = "none"
  /\ result = <<>>
  /\ run = 0

(* self._default_observation(), for the spec self._features gives *)
SynthesizeObservation ==
  /\ call.op = "__init__"
  /\ \E fs \in FeatureShapes(ScreenFeatures), fm \in FeatureShapes(MinimapFeatures),
        rs \in RgbShapes, rm \in RgbShapes, p \in PriorPatterns :
       LET obs_spec == MakeObsSpec(fs, fm, rs, rm)
           o == DefaultObservationOutcome(obs_spec, p)
       IN /\ call' = [op |-> "_default_observation", obs_spec |-> obs_spec,
                      prior |-> TransformedCamera(obs_spec, p)]
          /\ raised' = o.raised
          /\ result' = o.observation
  /\ UNCHANGED <<constructed, cls, num_agents, episode_steps, next_timestep,
                 episode_length, run>>

NextSynth == SynthesizeObservation

SpecSynth == InitSynth /\ [][NextSynth]_vars

(* An instance whose episode length is fixed before its first call and    *)
(* whose template is left at its default: the engine after                 *)
(* `env.episode_length = k`, or the fixture as constructed (k = 10).       *)
FixedLengths(c) ==
  IF c = "SC2TestEnv" THEN {FixtureEpisodeLength} ELSE 0..MaxLen

InitFixed ==
  \E c \in {"_TestEnvironment", "SC2TestEnv"}, n \in 1..MaxAgents :
    \E k \in FixedLengths(c) :
      LET f == TestEnvironmentInit(c, n)
      IN /\ constructed = f.constructed
         /\ cls = c
         /\ num_agents = f.num_agents
         /\ episode_steps = f.episode_steps
         /\ next_timestep = f.next_timestep
         /\ episode_length = Finite(k)
         /\ call = SimpleCall("construct")
         /\ raised = f.raised
         /\ result = <<>>
         /\ run = 0

NextFixed ==
  \/ Reset
  \/ Step
  \/ StepInvalid
  \/ SaveReplay

SpecFixed == InitFixed /\ [][NextFixed]_vars

(* the caller keeps making valid step calls *)
SpecFixedFair == SpecFixed /\ WF_vars(Step)

(* the values the variables take; the constructor can raise ValueError      *)
(* (line 226), IndexError (line 77 with no agents) and KeyError (line 313)  *)
TypeOK ==
  /\ constructed \in BOOLEAN
  /\ cls \in {"_TestEnvironment", "SC2TestEnv"}
  /\ num_agents \in 0..MaxAgents
  /\ constructed => num_agents >= 1
  /\ episode_steps \in 0..MaxSteps
  /\ next_timestep.step_type \in StepTypes
  /\ raised \in {"none", "ValueError", "IndexError", "KeyError"}
  /\ run \in 0..(MaxSteps + 1)

----------------------------------------------------------------------------
(* Properties *)

(* the most recent call was reset or step and it returned timesteps *)
Returned == constructed /\ raised = "none" /\ call.op \in {"reset", "step"}

AllTypes(res, st) == \A i \in DOMAIN res : res[i].step_type = st

NoType(res, st) == \A i \in DOMAIN res : res[i].step_type # st

(* the shape of an episode of length len, k being the position of the call *)
EpisodeShape(res, k, len) ==
  /\ (k = 1 => AllTypes(res, FIRST))
  /\ (k >= 2 /\ k <= len => AllTypes(res, MID))
  /\ (k = len + 1 => AllTypes(res, LAST))
  /\ (k = len + 2 => AllTypes(res, FIRST))

InRun == Returned /\ run > 0 /\ num_agents >= 1 /\ ~episode_length.inf

(* C1, as stated: for every episode length L >= 0, in a run of calls begun  *)
(* by reset with the template's step_type left at MID, call 1 returns      *)
(* FIRST, calls 2..L return MID, call L+1 returns LAST, call L+2 FIRST.     *)
C1_EpisodeShapeAnyLength ==
  InRun => EpisodeShape(result, run, episode_length.n)

(* C1, amended: the same for every episode length L >= 1. With L = 0 the    *)
(* first call still returns FIRST and the second one LAST.                  *)
C1_EpisodeShape ==
  /\ (InRun /\ episode_length.n >= 1) =>
        EpisodeShape(result, run, episode_length.n)
  /\ (InRun /\ episode_length.n = 0) =>
        /\ (run = 1 => AllTypes(result, FIRST))
        /\ (run = 2 => AllTypes(result, LAST))

C1_Witness ==
  /\ InRun
  /\ call.op = "step"
  /\ episode_length.n = 2
  /\ run = 4
  /\ AllTypes(result, FIRST)

(* C2: step with len(actions) # num_agents raises ValueError and changes    *)
(* no field of the environment, so a later correct call behaves as if the   *)
(* failed call had not been made.                                          *)
C2_InvalidArityNoEffect ==
  [][(constructed /\ call'.op = "step" /\ call'.nactions # num_agents) =>
       /\ raised' = "ValueError"
       /\ UNCHANGED fields
       /\ StepOutcome(num_agents', num_agents', episode_steps',
                      episode_length', next_timestep')
            = StepOutcome(num_agents, num_agents, episode_steps,
                          episode_length, next_timestep)]_vars

C2_Witness ==
  /\ constructed
  /\ call.op = "step"
  /\ raised = "ValueError"
  /\ num_agents = 2
  /\ call.nactions = 1
  /\ episode_steps = 2

(* C3: with N >= 1 agents, reset and every successful step return exactly  *)
(* N timesteps.                                                            *)
C3_ExactlyN ==
  (Returned /\ num_agents >= 1) => Len(result) = num_agents

C3_Witness ==
  /\ Returned
  /\ call.op = "step"
  /\ num_agents = 2
  /\ Len(result) = 2

(* C4: every returned timestep of step_type FIRST has reward 0 and          *)
(* discount 1, whatever the template holds and whatever the counter is.     *)
C4_FirstHasRewardZero ==
  Returned =>
    \A i \in DOMAIN result :
      result[i].step_type = FIRST =>
        (result[i].reward = 0 /\ result[i].discount = 1)

(* C5: reset returns what step returns at counter 0 and leaves the state    *)
(* that step leaves: N FIRST timesteps (reward 0, discount 1, the           *)
(* template's observation) and counter 1, from any state.                   *)
C5_ResetIsFirstStep ==
  [][(constructed /\ call'.op = "reset") =>
       LET first == StepOutcome(num_agents, num_agents, 0, episode_length,
                                next_timestep)
       IN /\ raised' = first.raised
          /\ result' = first.result
          /\ episode_steps' = first.episode_steps
          /\ raised' = "none"
          /\ episode_steps' = 1
          /\ Len(result') = num_agents
          /\ \A i \in DOMAIN result' :
               result'[i] = TimeStep(FIRST, 0, 1, next_timestep.observation)
          /\ UNCHANGED <<constructed, cls, num_agents, next_timestep,
                         episode_length>>]_vars

C5_Witness ==
  /\ Returned
  /\ call.op = "reset"
  /\ num_agents = 2
  /\ next_timestep.step_type = LAST
  /\ next_timestep.reward = 1
  /\ episode_length.n = 0
  /\ ~episode_length.inf
  /\ AllTypes(result, FIRST)
  /\ episode_steps = 1

(* C6: the fixture is constructed with episode length 10, and with that     *)
(* length calls 1..10 of a run begun by reset return a non-LAST timestep    *)
(* and leave the counter at the call's position, and call 11 returns LAST.  *)
C6_FixtureEpisode ==
  /\ (constructed /\ cls = "SC2TestEnv" /\ call.op = "construct") =>
        episode_length = Finite(10)
  /\ (InRun /\ cls = "SC2TestEnv" /\ episode_length = Finite(10)) =>
        /\ (run \in 1..10 => NoType(result, LAST) /\ episode_steps = run)
        /\ (run = 11 => AllTypes(result, LAST))

C6_Witness ==
  /\ InRun
  /\ cls = "SC2TestEnv"
  /\ episode_length = Finite(10)
  /\ run = 11
  /\ AllTypes(result, LAST)

(* C7, as stated: a successful step returns LAST exactly when the counter   *)
(* at the start of the call has reached the episode length.                 *)
C7_LastIffReachedLength ==
  [][(constructed /\ call'.op = "step" /\ raised' = "none" /\ num_agents >= 1) =>
       (AllTypes(result', LAST) <=>
          ((~episode_length.inf) /\ episode_steps >= episode_length.n))]_vars

(* C7, amended: a successful step returns LAST exactly when the counter at  *)
(* the start of the call is not 0 and either has reached the episode        *)
(* length or the template's step_type is LAST; at counter 0 it returns      *)
(* FIRST.                                                                   *)
C7_LastIffReachedLengthPastFirst ==
  [][(constructed /\ call'.op = "step" /\ raised' = "none" /\ num_agents >= 1) =>
       /\ AllTypes(result', LAST) <=>
            /\ episode_steps # 0
            /\ \/ ((~episode_length.inf) /\ episode_steps >= episode_length.n)
               \/ next_timestep.step_type = LAST
       /\ episode_steps = 0 => AllTypes(result', FIRST)]_vars

C7_Witness ==
  /\ Returned
  /\ call.op = "step"
  /\ num_agents >= 1
  /\ next_timestep.step_type = MID
  /\ episode_length = Finite(2)
  /\ AllTypes(result, LAST)
  /\ episode_steps = 0

(* C8: the timestep that ends a fixture episode (step_type LAST) has        *)
(* discount 0.                                                              *)
C8_LastHasDiscountZero ==
  (Returned /\ cls = "SC2TestEnv" /\ next_timestep = DefaultTimestep(cls)
     /\ episode_length = Finite(10)) =>
    \A i \in DOMAIN result :
      result[i].step_type = LAST => result[i].discount = 0

(* C9: constructing the fixture with a positional argument raises and       *)
(* constructs nothing, whatever the value passed.                           *)
C9_PositionalRejected ==
  (call.op = "construct" /\ call.positional) =>
    (raised = "ValueError" /\ ~constructed)

(* C10: save_replay never fails and changes no field, so a following step   *)
(* returns what it would have returned without it.                          *)
C10_SaveReplayNoEffect ==
  [][(constructed /\ call'.op = "save_replay") =>
       /\ raised' = "none"
       /\ UNCHANGED fields
       /\ StepOutcome(num_agents', num_agents', episode_steps',
                      episode_length', next_timestep')
            = StepOutcome(num_agents, num_agents, episode_steps,
                          episode_length, next_timestep)]_vars

C10_Witness ==
  /\ constructed
  /\ call.op = "save_replay"
  /\ call.nactions = 2
  /\ raised = "none"
  /\ episode_steps = 3
  /\ next_timestep.reward = 1


(* C11: an engine is constructed with an unbounded episode length and the   *)
(* default template, and while the length is unbounded and the template's   *)
(* step_type is MID no reset or step returns LAST and every step adds 1 to  *)
(* the counter instead of resetting it.                                     *)
C11_UnboundedNeverLast ==
  [][/\ (call'.op = "construct" /\ cls' = "_TestEnvironment") =>
          /\ episode_length'.inf
          /\ next_timestep' = TimeStep(MID, 0, 1, ZeroObservation)
     /\ (constructed /\ call'.op \in {"reset", "step"} /\ raised' = "none"
           /\ episode_length.inf /\ next_timestep.step_type = MID) =>
          /\ NoType(result', LAST)
          /\ Len(result') = num_agents
          /\ call'.op = "step" => episode_steps' = episode_steps + 1]_vars

C11_Witness ==
  /\ Returned
  /\ call.op = "step"
  /\ cls = "_TestEnvironment"
  /\ episode_length.inf
  /\ next_timestep = TimeStep(MID, 0, 1, ZeroObservation)
  /\ episode_steps = MaxSteps
  /\ run = MaxSteps
  /\ num_agents = 2
  /\ AllTypes(result, MID)

(* the number of "Agent" entries of a list, counted by position *)
AgentPositions(l) == {i \in DOMAIN l : l[i] = "Agent"}

(* a step succeeds exactly when it is given num_agents actions *)
ArityIsAgentCount ==
  (constructed /\ call.op = "step") =>
    (raised = "none" <=> call.nactions = num_agents)

(* C12: constructing the fixture with a roster gives an instance whose      *)
(* agent count is the number of Agent entries of the roster, also when the  *)
(* roster holds only Bot entries; the count is 1 when no roster is passed   *)
(* (None or an empty list); step requires that many actions.                *)
C12_AgentCountIsRosterAgents ==
  /\ (cls = "SC2TestEnv" /\ call.op = "construct" /\ raised # "ValueError") =>
        /\ constructed
        /\ raised = "none"
        /\ num_agents = (IF call.players.none \/ call.players.list = <<>> THEN 1
                         ELSE Cardinality(AgentPositions(call.players.list)))
  /\ ArityIsAgentCount

(* a successful step made with 0 < counter < episode length *)
MidStep ==
  /\ constructed
  /\ call'.op = "step"
  /\ raised' = "none"
  /\ num_agents >= 1
  /\ episode_steps > 0
  /\ (episode_length.inf \/ episode_steps < episode_length.n)

(* C15, as stated: a step made with 0 < counter < episode length returns    *)
(* MID timesteps carrying the template's reward, discount and observation,  *)
(* and adds 1 to the counter, for any template the caller has configured.   *)
C15_MidStepReturnsMid ==
  [][MidStep =>
       /\ Len(result') = num_agents
       /\ \A i \in DOMAIN result' :
            /\ result'[i].step_type = MID
            /\ result'[i].reward = next_timestep.reward
            /\ result'[i].discount = next_timestep.discount
            /\ result'[i].observation = next_timestep.observation
       /\ episode_steps' = episode_steps + 1]_vars

(* C15, amended: such a step returns the template unchanged, step_type      *)
(* included (MID when the template's is MID), and adds 1 to the counter     *)
(* unless the template's step_type is LAST, which resets the counter to 0.  *)
C15_MidStepReturnsTemplate ==
  [][MidStep =>
       /\ Len(result') = num_agents
       /\ \A i \in DOMAIN result' : result'[i] = next_timestep
       /\ next_timestep.step_type = MID => AllTypes(result', MID)
       /\ episode_steps' = (IF next_timestep.step_type = "LAST" THEN 0
                            ELSE episode_steps + 1)]_vars

C15_Witness ==
  /\ Returned
  /\ call.op = "step"
  /\ num_agents = 2
  /\ episode_length = Finite(10)
  /\ episode_steps = 3
  /\ next_timestep = TimeStep(MID, 1, 0, CustomObservation)
  /\ result = <<next_timestep, next_timestep>>

(* C16: the successful reset or step that follows one that returned LAST    *)
(* returns FIRST, and so does the first one made on a new instance.         *)
C16_FirstAfterLast ==
  [][(/\ constructed
      /\ num_agents >= 1
      /\ \/ (Returned /\ AllTypes(result, LAST))
         \/ call.op = "construct"
      /\ call'.op \in {"reset", "step"}
      /\ raised' = "none") =>
       (Len(result') = num_agents /\ AllTypes(result', FIRST))]_vars

C16_Witness ==
  /\ Returned
  /\ call.op = "step"
  /\ num_agents = 2
  /\ run = episode_length.n + 2
  /\ episode_length = Finite(2)
  /\ AllTypes(result, FIRST)
  /\ episode_steps = 1

(* C17: reset and step (of any arity) leave the template, the episode       *)
(* length, the agent count and the class as they were, and every timestep   *)
(* they return carries the template's observation.                          *)
C17_TemplateUntouched ==
  [][(constructed /\ call'.op \in {"reset", "step"}) =>
       /\ next_timestep' = next_timestep
       /\ episode_length' = episode_length
       /\ num_agents' = num_agents
       /\ cls' = cls
       /\ constructed'
       /\ \A i \in DOMAIN result' :
            result'[i].observation = next_timestep.observation]_vars

C17_Witness ==
  /\ Returned
  /\ call.op = "step"
  /\ cls = "SC2TestEnv"
  /\ num_agents = 2
  /\ next_timestep = TimeStep(MID, 1, 0, MockObservation)
  /\ AllTypes(result, LAST)
  /\ result[1].observation = MockObservation
  /\ episode_steps = 0


Max(a, b) == IF a >= b THEN a ELSE b

(* C19: with a finite episode length L fixed before the first call and the  *)
(* default template, the counter stays within 0..max(L, 1) under any        *)
(* sequence of reset, step (valid or not) and save_replay; for the fixture  *)
(* it never exceeds 10.                                                     *)
C19_CounterBounded ==
  /\ episode_steps \in 0..Max(episode_length.n, 1)
  /\ cls = "SC2TestEnv" => episode_steps <= 10

C19_Witness ==
  /\ Returned
  /\ call.op = "step"
  /\ cls = "SC2TestEnv"
  /\ episode_steps = 10
  /\ run = 10

(* a step has just returned LAST timesteps *)
LastReturned ==
  /\ Returned
  /\ call.op = "step"
  /\ Len(result) >= 1
  /\ AllTypes(result, LAST)

(* C20: with a finite episode length, if from some point on the caller      *)
(* makes no reset while it keeps making valid step calls, a step returns    *)
(* LAST again and again.                                                    *)
C20_LastInfinitelyOften ==
  (<>[][call'.op # "reset"]_vars) => []<>LastReturned

C20_Witness ==
  /\ LastReturned
  /\ cls = "SC2TestEnv"
  /\ episode_length = Finite(10)
  /\ episode_steps = 0
  /\ run = 11


(* the default observation has just been built without an error *)
Synthesized == call.op = "_default_observation" /\ raised = "none"

Declared(k) == k \in DOMAIN call.obs_spec

(* C13: after construction the minimap camera of shape (H, W) holds 1 in    *)
(* the cells (r, c) with r < H div 2 and c < W div 2 and 0 in all others,   *)
(* whatever it held before.                                                 *)
C13_CameraTopLeftQuadrant ==
  (Synthesized /\ Declared("feature_minimap")) =>
    LET H == call.obs_spec["feature_minimap"][2]
        W == call.obs_spec["feature_minimap"][3]
        camera == result.camera
    IN /\ camera.h = H
       /\ camera.w = W
       /\ DOMAIN camera.cells = 0..(H - 1)
       /\ \A r \in 0..(H - 1) :
            /\ DOMAIN camera.cells[r] = 0..(W - 1)
            /\ \A c \in 0..(W - 1) :
                 camera.cells[r][c] =
                   (IF 2 * (r + 1) <= H /\ 2 * (c + 1) <= W THEN 1 ELSE 0)

C13_Witness ==
  /\ Synthesized
  /\ Declared("feature_minimap")
  /\ call.prior = PriorCamera(3, 2, "ramp")
  /\ result.camera.cells[0][0] = 1
  /\ result.camera.cells[0][1] = 0
  /\ result.camera.cells[1][0] = 0

AllZero(data) == \A i \in DOMAIN data : data[i] = 0

(* an image of bits bits per pixel whose buffer fits the shape (h, w) *)
BufferFits(image, h, w, bits, bytes) ==
  /\ image.bits_per_pixel = bits
  /\ image.size_y = h
  /\ image.size_x = w
  /\ Len(image.data) = bytes
  /\ AllZero(image.data)

(* C14: every 8-bit feature-layer buffer built for a declared (h, w) is     *)
(* h*w zero bytes and every 24-bit visual buffer is 3*h*w zero bytes.       *)
C14_BufferLengths ==
  Synthesized =>
    LET raw == result.raw
        spec == call.obs_spec
    IN /\ Declared("feature_screen") =>
            \A f \in DOMAIN raw.renders :
              BufferFits(raw.renders[f], spec["feature_screen"][2],
                         spec["feature_screen"][3], 8,
                         spec["feature_screen"][2] * spec["feature_screen"][3])
       /\ Declared("feature_minimap") =>
            \A f \in DOMAIN raw.minimap_renders :
              BufferFits(raw.minimap_renders[f], spec["feature_minimap"][2],
                         spec["feature_minimap"][3], 8,
                         spec["feature_minimap"][2] * spec["feature_minimap"][3])
       /\ raw.map # NoImage =>
            /\ Declared("rgb_screen")
            /\ BufferFits(raw.map, spec["rgb_screen"][1], spec["rgb_screen"][2],
                          24, 3 * spec["rgb_screen"][1] * spec["rgb_screen"][2])
       /\ raw.minimap # NoImage =>
            /\ Declared("rgb_minimap")
            /\ BufferFits(raw.minimap, spec["rgb_minimap"][1],
                          spec["rgb_minimap"][2], 24,
                          3 * spec["rgb_minimap"][1] * spec["rgb_minimap"][2])

C14_Witness ==
  /\ Synthesized
  /\ Declared("feature_screen")
  /\ call.obs_spec["feature_screen"] = FeatureShape(ScreenFeatures, 3, 2)
  /\ Len(result.raw.renders["unit_type"].data) = 6
  /\ Declared("rgb_screen")
  /\ call.obs_spec["rgb_minimap"] = RgbShape(2, 3)
  /\ call.obs_spec["rgb_screen"] = RgbShape(1, 3)
  /\ Len(result.raw.minimap.data) = 18
  /\ Len(result.raw.map.data) = 9

(* C18: building the default observation never fails, and it allocates a    *)
(* visual buffer for the screen exactly when rgb_screen is declared and     *)
(* one for the minimap exactly when rgb_minimap is declared.                *)
C18_VisualBufferPerField ==
  call.op = "_default_observation" =>
    /\ raised = "none"
    /\ result.raw.map # NoImage <=> Declared("rgb_screen")
    /\ result.raw.minimap # NoImage <=> Declared("rgb_minimap")

====
